---------------------------- MODULE Spec2Model ----------------------------
(***************************************************************************)
(* FAE/Func/Metric.py: AUC_Confidence_Interval (bootstrap confidence       *)
(* interval of the AUC) and EstimateMetirc (Youden threshold, confusion    *)
(* matrix metrics).                                                        *)
(*                                                                         *)
(* Numbers.  Predictions are small integers.  An AUC (a float in [0,1])    *)
(* is carried exactly, as an integer number of 1/AUCScale units.  A        *)
(* confidence level is carried as a percentage.  The standard deviation   *)
(* is carried by its square (the population variance), as a fraction.     *)
(* The values line 71 compares, 1 - fpr + tpr, are carried as the IEEE     *)
(* binary64 numbers the code computes: their order decides np.argmax.      *)
(*                                                                         *)
(* Libraries.  np.random is a deterministic generator with one process-    *)
(* wide state; which generator it is, is drawn once from Generators.       *)
(* roc_curve and roc_auc_score are sklearn's: the curve with               *)
(* drop_intermediate=True and the extra first point, the trapezoidal area, *)
(* ValueError when y_true holds one class.                                 *)
(*                                                                         *)
(* key_word only prefixes the keys of the mapping; the mapping is carried  *)
(* as a record with the unprefixed keys.                                   *)
(***************************************************************************)
EXTENDS Integers, Sequences, FiniteSets, TLC

(* ------------------------------ bounds -------------------------------- *)
\* largest sample count of an input pair
MaxSamples == 3
\* predictions range over 1..MaxScore
MaxScore == 2
\* number of bootstrap replicates (1000 at Metric.py:23)
NumBootstrap == 4
\* number of states of the pseudo-random generator
Modulus == 5

(* ------------------------- program constants -------------------------- *)
MasterSeed == 42
SubSeedHigh == 65535
DefaultCI == 95

\* confidence levels a direct caller passes as CI_index, in percent
CILevels == {50, 95}

\* the generators np.random may be: state' = (mult * state + inc) % Modulus
Generators == {<<1, 1>>, <<2, 1>>, <<1, 0>>}

NoResult == [kind |-> "none"]

(* ------------------------------ helpers ------------------------------- *)
Range(s) == {s[k] : k \in DOMAIN s}

Max(S) == CHOOSE m \in S : \A x \in S : x <= m

RECURSIVE GCD(_, _)
GCD(a, b) == IF b = 0 THEN a ELSE GCD(b, a % b)

LCM(a, b) == (a * b) \div GCD(a, b)

RECURSIVE LCMOf(_)
LCMOf(S) == IF S = {} THEN 1
            ELSE LET x == CHOOSE y \in S : TRUE IN LCM(x, LCMOf(S \ {x}))

(* ------------------------------ inputs -------------------------------- *)
Samples(n) == [1..n -> {0, 1}] \X [1..n -> 1..MaxScore]

\* six samples with distinct predictions; the ROC points (0, 1/3) and (2/3, 1)
\* both have the largest tpr - fpr
TiedInput == << <<1, 0, 0, 1, 1, 0>>, <<6, 5, 4, 3, 2, 1>> >>

InputPairs == UNION {Samples(n) : n \in 1..MaxSamples} \cup {TiedInput}

MaxLen == Max({Len(p[1]) : p \in InputPairs})

\* every AUC of up to MaxLen samples is a whole number of 1/AUCScale
AUCScale == LCMOf({2 * p[1] * p[2] :
                     p \in {q \in (1..MaxLen) \X (1..MaxLen) :
                              q[1] + q[2] <= MaxLen}})

(* ------------------------- binary64 arithmetic ------------------------- *)
\* A float64 x with x = 0 or 1/8 <= x < 4 is a whole number of 2^-57; it is
\* carried as that number, in three limbs <<a, b, c>> = a * 2^40 + b * 2^20 + c.
\* fpr and tpr are 0 or at least 1/8 as long as no input has more than 8
\* samples.
Limb == 2^20

FOne == <<2^17, 0, 0>>

Carry(v) ==
    LET b == v[2] + v[3] \div Limb
    IN <<v[1] + b \div Limb, b % Limb, v[3] % Limb>>

RECURSIVE BitLen(_)
BitLen(n) == IF n = 0 THEN 0 ELSE 1 + BitLen(n \div 2)

BigLen(v) == IF v[1] > 0 THEN 40 + BitLen(v[1])
             ELSE IF v[2] > 0 THEN 20 + BitLen(v[2])
             ELSE BitLen(v[3])

\* round to nearest, ties to even, to 53 significant bits; inexact says that
\* the value lies above v by less than one unit
Round53(v, inexact) ==
    IF BigLen(v) <= 53 THEN v
    ELSE LET d == BigLen(v) - 53
             low == v[3] % (2^d)
             half == 2^(d - 1)
             up == \/ low > half
                   \/ low = half /\ inexact
                   \/ low = half /\ (v[3] \div (2^d)) % 2 = 1
         IN Carry(<<v[1], v[2], v[3] - low + (IF up THEN 2^d ELSE 0)>>)

\* float(a) / float(b) of integers 0 <= a <= b <= 8, b > 0
FDiv(a, b) ==
    LET h == a * 2^17
        r1 == h % b
        r2 == (r1 * Limb) % b
        r3 == (r2 * Limb) % b
    IN Round53(<<h \div b, (r1 * Limb) \div b, (r2 * Limb) \div b>>, r3 # 0)

FAdd(x, y) == Round53(Carry(<<x[1] + y[1], x[2] + y[2], x[3] + y[3]>>), FALSE)

\* x - y for x >= y
FSub(x, y) ==
    Round53(Carry(<<x[1] - y[1] - 1, x[2] - y[2] + Limb - 1, x[3] - y[3] + Limb>>),
            FALSE)

FLess(x, y) ==
    \/ x[1] < y[1]
    \/ x[1] = y[1] /\ x[2] < y[2]
    \/ x[1] = y[1] /\ x[2] = y[2] /\ x[3] < y[3]

RECURSIVE SumSeq(_)
SumSeq(s) == IF s = <<>> THEN 0 ELSE Head(s) + SumSeq(Tail(s))

\* number of positions of y holding v
Count(y, v) == Cardinality({k \in DOMAIN y : y[k] = v})

(* ---------------------- numpy random generator ------------------------ *)
\* np.random.seed(s): the generator state after seeding
Seed(s) == s % Modulus

NextState(g, st) == (g[1] * st + g[2]) % Modulus

\* np.random.randint(low, high, k) from state st: k values and the state left
RECURSIVE RandInt(_, _, _, _, _)
RandInt(g, st, low, high, k) ==
    IF k = 0 THEN [values |-> <<>>, state |-> st]
    ELSE LET st1 == NextState(g, st)
             rest == RandInt(g, st1, low, high, k - 1)
         IN [values |-> <<low + (st1 % (high - low))>> \o rest.values,
             state |-> rest.state]

\* np.random.choice(a, size=size, replace=True) from state st
Choice(g, st, a, size) ==
    LET d == RandInt(g, st, 0, Len(a), size)
    IN [sample |-> [k \in 1..size |-> a[d.values[k] + 1]], state |-> d.state]

(* ------------------------- sklearn.metrics ---------------------------- *)
RECURSIVE SetToDescSeq(_)
SetToDescSeq(S) == IF S = {} THEN <<>>
                   ELSE LET m == Max(S) IN <<m>> \o SetToDescSeq(S \ {m})

\* _binary_clf_curve: cumulative false/true positives per distinct score,
\* scores in decreasing order
BinaryClfCurve(y_true, y_score) ==
    LET thr == SetToDescSeq(Range(y_score))
    IN [j \in 1..Len(thr) |->
          [fps |-> Cardinality({k \in DOMAIN y_true :
                                  y_score[k] >= thr[j] /\ y_true[k] = 0}),
           tps |-> Cardinality({k \in DOMAIN y_true :
                                  y_score[k] >= thr[j] /\ y_true[k] = 1}),
           thr |-> thr[j]]]

\* the positions roc_curve keeps under drop_intermediate=True
KeptIdxs(c) ==
    IF Len(c) > 2
    THEN {j \in 1..Len(c) :
            \/ j = 1
            \/ j = Len(c)
            \/ c[j+1].fps - 2 * c[j].fps + c[j-1].fps # 0
            \/ c[j+1].tps - 2 * c[j].tps + c[j-1].tps # 0}
    ELSE 1..Len(c)

RECURSIVE SubSeqAt(_, _, _)
SubSeqAt(c, idxs, j) ==
    IF j > Len(c) THEN <<>>
    ELSE (IF j \in idxs THEN <<c[j]>> ELSE <<>>) \o SubSeqAt(c, idxs, j + 1)

\* roc_curve: the kept points after an extra first point (0, 0) whose
\* threshold lies above every score
RocCurve(y_true, y_score) ==
    LET c == BinaryClfCurve(y_true, y_score)
    IN <<[fps |-> 0, tps |-> 0, thr |-> c[1].thr + 1]>>
       \o SubSeqAt(c, KeptIdxs(c), 1)

\* roc_auc_score returning a score whatever the labels are
OneClassUnchecked(y) == FALSE

\* roc_auc_score raises ValueError("Only one class present in y_true. ROC AUC
\* score is not defined in that case.") unless both classes are present
OneClass(y) == Cardinality(Range(y)) < 2

\* the error the specification calls DegenerateLabelError
DegenerateLabelError == "ValueError: Only one class present in y_true"

\* roc_auc_score: trapezoidal area under roc_curve, in 1/AUCScale units
RocAucScore(y_true, y_score) ==
    LET roc == RocCurve(y_true, y_score)
        P == Count(y_true, 1)
        N == Count(y_true, 0)
        twice == SumSeq([j \in 1..(Len(roc) - 1) |->
                    (roc[j+1].fps - roc[j].fps) * (roc[j+1].tps + roc[j].tps)])
    IN IF P * N = 0 THEN 0 ELSE twice * (AUCScale \div (2 * P * N))

(* --------------------- AUC_Confidence_Interval ------------------------ *)
RECURSIVE Insert(_, _)
Insert(x, s) == IF s = <<>> THEN <<x>>
                ELSE IF x <= Head(s) THEN <<x>> \o s
                ELSE <<Head(s)>> \o Insert(x, Tail(s))

\* ndarray.sort(): ascending
RECURSIVE Sort(_)
Sort(s) == IF s = <<>> THEN <<>> ELSE Insert(Head(s), Sort(Tail(s)))

\* int(x) of the fraction num/den, den > 0: truncation towards zero
Trunc(num, den) == IF num >= 0 THEN num \div den ELSE -((-num) \div den)

\* the generator left as the caller had it
MasterSeedSkipped(st) == st

\* line 22: the state np.random.seed(42) leaves, whatever the state st before
MasterSeedState(st) == Seed(MasterSeed)

\* the label resample drawn on from where the prediction resample stopped
LabelSeedSkipped(seed, st) == st

\* line 27: the state the label resample starts from; st is the state the
\* prediction resample left
LabelSeedState(seed, st) == Seed(seed)

\* line 30: len(np.unique(label_one_sample)) < 2
Rejected(label_sample) == Cardinality(Range(label_sample)) < 2

\* line 46: int((1.0 - CI_index) / 2 * len(sorted_scores)), CI_index = ci/100.
\* For the levels of CILevels and every n up to 1000 the float results of lines
\* 46 and 47 are the integers computed here.
LowerIndex(ci, n) == Trunc((100 - ci) * n, 200)

\* line 47: int(1.0 - (1.0 - CI_index) / 2 * len(sorted_scores))
UpperIndex(ci, n) == Trunc(200 - (100 - ci) * n, 200)

\* a[i] of a numpy array: a negative i counts from the end
InRange(a, i) == -Len(a) <= i /\ i < Len(a)
Item(a, i) == IF i < 0 THEN a[Len(a) + i + 1] ELSE a[i + 1]

\* np.mean, as the fraction sum / count
Mean(s) == <<SumSeq(s), Len(s)>>

\* np.std squared (population variance), as a fraction
Variance(s) == <<Len(s) * SumSeq([k \in DOMAIN s |-> s[k] * s[k]])
                  - SumSeq(s) * SumSeq(s),
                Len(s) * Len(s)>>

(* --------------------------- EstimateMetirc --------------------------- *)
\* '{:.4f}'.format(num / den): the text, as its number of 1/10000 units
Format4(num, den) ==
    LET q == (10000 * num) \div den
        r == (10000 * num) % den
    IN [kind |-> "text",
        value |-> IF 2 * r > den THEN q + 1
                  ELSE IF 2 * r = den THEN q + (q % 2)
                  ELSE q]

Number(v) == [kind |-> "number", value |-> v]

\* the last position of the largest element
ArgMaxLast(s) == CHOOSE i \in DOMAIN s :
                    /\ \A j \in DOMAIN s : ~FLess(s[i], s[j])
                    /\ \A j \in (i + 1)..Len(s) : FLess(s[j], s[i])

\* np.argmax of an array of floats: the first position of the largest element
ArgMax(s) == CHOOSE i \in DOMAIN s :
                /\ \A j \in DOMAIN s : ~FLess(s[i], s[j])
                /\ \A j \in 1..(i - 1) : FLess(s[j], s[i])

\* line 71: the float 1 - fpr + tpr of a point of the curve, where roc_curve
\* returns fpr = fps / N and tpr = tps / P
OneMinusFprPlusTpr(point, P, N) ==
    FAdd(FSub(FOne, FDiv(point.fps, N)), FDiv(point.tps, P))

\* line 71: with one class absent every element is nan and np.argmax gives
\* position 0
YoudenIndex(roc, P, N) ==
    IF P * N = 0 THEN 1
    ELSE ArgMax([j \in DOMAIN roc |-> OneMinusFprPlusTpr(roc[j], P, N)])

\* positive only above the threshold
BinarizeAbove(prediction, threshold) ==
    [k \in DOMAIN prediction |-> IF prediction[k] > threshold THEN 1 ELSE 0]

\* lines 74-75
Binarize(prediction, threshold) ==
    [k \in DOMAIN prediction |-> IF prediction[k] >= threshold THEN 1 ELSE 0]

\* confusion_matrix(label, pred) in its default order of labels, [0, 1]
ConfusionMatrixDefault(label, pred) ==
    LET labels == <<0, 1>>
    IN [i \in 1..2 |-> [j \in 1..2 |->
          Cardinality({k \in DOMAIN label :
                         label[k] = labels[i] /\ pred[k] = labels[j]})]]

\* confusion_matrix(label, pred, labels=[1, 0])
ConfusionMatrix(label, pred) ==
    LET labels == <<1, 0>>
    IN [i \in 1..2 |-> [j \in 1..2 |->
          Cardinality({k \in DOMAIN label :
                         label[k] = labels[i] /\ pred[k] = labels[j]})]]

\* lines 79-94: a ratio metric, 0 when its denominator is below 1e-6
Ratio(num, den) == IF den <= 0 THEN Number(0) ELSE Format4(num, den)

\* lines 70-71: the selected point of the ROC curve
YoudenPoint(prediction, label) ==
    LET roc == RocCurve(label, prediction)
    IN roc[YoudenIndex(roc, Count(label, 1), Count(label, 0))]

\* lines 65-72 and 76-94: the mapping, given pred of lines 74-75
Metrics(prediction, label, threshold, p) ==
    LET C == ConfusionMatrix(label, p)
    IN [kind |-> "mapping",
        sample_number |-> Len(label),
        positive_number |-> SumSeq(label),
        negative_number |-> Len(label) - SumSeq(label),
        Youden_Index |-> Format4(threshold, 1),
        accuracy |-> Format4(Cardinality({k \in DOMAIN label : p[k] = label[k]}),
                             Len(label)),
        sensitivity |-> Ratio(C[1][1], C[1][1] + C[1][2]),
        specificity |-> Ratio(C[2][2], C[2][1] + C[2][2]),
        ppv |-> Ratio(C[1][1], C[1][1] + C[2][1]),
        npv |-> Ratio(C[2][2], C[1][2] + C[2][2])]

(* ------------------------------ state --------------------------------- *)
VARIABLES
    y_true, y_pred,      \* the input pair (labels, predictions) of this run
    generator,           \* which generator np.random is
    np_random,           \* state of the process-wide generator np.random
    pc,                  \* position of the running call, "idle" between calls
    func,                \* the function the caller called
    CI_index,            \* AUC_Confidence_Interval's parameter, in percent
    single_auc, seed_index, it, bootstrapped_scores,
    pred_one_sample, label_one_sample,
    auc_return,          \* what AUC_Confidence_Interval returned
    metric, pred,        \* EstimateMetirc's local mapping and binarized predictions
    outcome, result,     \* how the caller's call ended, and what it got
    raised_at,           \* source line of the raise, 0 if none
    n_scores,            \* size of the bootstrap result set of the last call, -1 if none
    rng_at_call,         \* np_random when AUC_Confidence_Interval was entered
    history, earlier     \* the last return; the return before the current one
                         \* when that had the same CI_index

vars == <<y_true, y_pred, generator, np_random, pc, func, CI_index, single_auc,
          seed_index, it, bootstrapped_scores, pred_one_sample,
          label_one_sample, auc_return, metric, pred, outcome, result,
          raised_at, n_scores, rng_at_call, history, earlier>>

inputs == <<y_true, y_pred, generator>>
locals == <<single_auc, seed_index, it, bootstrapped_scores, pred_one_sample,
            label_one_sample>>

Init ==
    /\ \E p \in InputPairs : y_true = p[1] /\ y_pred = p[2]
    /\ generator \in Generators
    /\ np_random \in 0..(Modulus - 1)
    /\ pc = "idle"
    /\ func = "none"
    /\ CI_index = DefaultCI
    /\ single_auc = 0
    /\ seed_index = <<>>
    /\ it = 0
    /\ bootstrapped_scores = <<>>
    /\ pred_one_sample = <<>>
    /\ label_one_sample = <<>>
    /\ auc_return = NoResult
    /\ metric = NoResult
    /\ pred = <<>>
    /\ n_scores = -1
    /\ outcome = "none"
    /\ result = NoResult
    /\ raised_at = 0
    /\ rng_at_call = np_random
    /\ history = NoResult
    /\ earlier = NoResult

ResetLocals ==
    /\ single_auc' = 0
    /\ seed_index' = <<>>
    /\ it' = 0
    /\ bootstrapped_scores' = <<>>
    /\ pred_one_sample' = <<>>
    /\ label_one_sample' = <<>>

\* an exception leaves the running call and every caller of it
Raise(error, line) ==
    /\ pc' = "idle"
    /\ outcome' = error
    /\ raised_at' = line
    /\ result' = NoResult
    /\ auc_return' = NoResult
    /\ metric' = NoResult
    /\ pred' = <<>>
    /\ ResetLocals

(* ------------------------------ caller -------------------------------- *)
BeginCall ==
    /\ pc = "idle"
    /\ outcome' = "none"
    /\ result' = NoResult
    /\ raised_at' = 0
    /\ auc_return' = NoResult
    /\ earlier' = NoResult
    /\ rng_at_call' = np_random
    /\ n_scores' = -1
    /\ UNCHANGED <<inputs, np_random, locals, metric, pred, history>>

CallAUC(ci) ==
    /\ BeginCall
    /\ func' = "AUC_Confidence_Interval"
    /\ CI_index' = ci
    /\ pc' = "line18"

CallEstimateMetirc ==
    /\ BeginCall
    /\ func' = "EstimateMetirc"
    /\ CI_index' = DefaultCI
    /\ pc' = "line62"

\* between calls the caller draws from np.random, and holds on to nothing
\* of the call before
CallerRandom ==
    /\ pc = "idle"
    /\ np_random' = NextState(generator, np_random)
    /\ rng_at_call' = np_random'
    /\ func' = "none"
    /\ outcome' = "none"
    /\ result' = NoResult
    /\ auc_return' = NoResult
    /\ earlier' = NoResult
    /\ raised_at' = 0
    /\ n_scores' = -1
    /\ UNCHANGED <<inputs, pc, CI_index, locals, metric, pred, history>>

(* --------------------- AUC_Confidence_Interval ------------------------ *)
\* line 18
AUC_Line18 ==
    /\ pc = "line18"
    /\ IF OneClass(y_true)
       THEN /\ Raise(DegenerateLabelError, 18)
            /\ UNCHANGED <<np_random>>
       ELSE /\ single_auc' = RocAucScore(y_true, y_pred)
            /\ pc' = "line22"
            /\ UNCHANGED <<np_random, seed_index, it, bootstrapped_scores,
                           pred_one_sample, label_one_sample, auc_return,
                           metric, pred, outcome, result, raised_at>>
    /\ UNCHANGED <<inputs, func, CI_index, n_scores, rng_at_call, history,
                   earlier>>

\* lines 20-23
AUC_Line22 ==
    /\ pc = "line22"
    /\ LET d == RandInt(generator, MasterSeedState(np_random), 0, SubSeedHigh,
                        NumBootstrap)
       IN /\ seed_index' = d.values
          /\ np_random' = d.state
    /\ bootstrapped_scores' = <<>>
    /\ it' = 1
    /\ pc' = "line24"
    /\ UNCHANGED <<inputs, func, CI_index, single_auc, pred_one_sample,
                   label_one_sample, auc_return, metric, pred, outcome, result,
                   raised_at, n_scores, rng_at_call, history, earlier>>

\* lines 24-36: one replicate
AUC_Line24 ==
    /\ pc = "line24"
    /\ it <= Len(seed_index)
    /\ LET seed == seed_index[it]
           p == Choice(generator, Seed(seed), y_pred, Len(y_pred))
           l == Choice(generator, LabelSeedState(seed, p.state), y_true,
                       Len(y_pred))
       IN /\ pred_one_sample' = p.sample
          /\ label_one_sample' = l.sample
          /\ np_random' = l.state
          /\ bootstrapped_scores' =
                IF Rejected(l.sample) THEN bootstrapped_scores
                ELSE Append(bootstrapped_scores, RocAucScore(l.sample, p.sample))
    /\ it' = it + 1
    /\ UNCHANGED <<inputs, pc, func, CI_index, single_auc, seed_index,
                   auc_return, metric, pred, outcome, result, raised_at,
                   n_scores, rng_at_call, history, earlier>>

\* lines 38-51
AUC_Line38 ==
    /\ pc = "line24"
    /\ it > Len(seed_index)
    /\ LET sorted_scores == Sort(bootstrapped_scores)
           n == Len(sorted_scores)
           lo == LowerIndex(CI_index, n)
           hi == UpperIndex(CI_index, n)
       IN /\ n_scores' = n
          /\ IF ~InRange(sorted_scores, lo)
             THEN /\ Raise("IndexError", 46)
                  /\ UNCHANGED <<history, earlier>>
             ELSE IF ~InRange(sorted_scores, hi)
             THEN /\ Raise("IndexError", 47)
                  /\ UNCHANGED <<history, earlier>>
             ELSE LET ret == [kind |-> "tuple",
                              rng_after |-> np_random,
                              CI_index |-> CI_index,
                              single_auc |-> single_auc,
                              mean_auc |-> Mean(bootstrapped_scores),
                              CI |-> <<Item(sorted_scores, lo), Item(sorted_scores, hi)>>,
                              sorted_scores |-> sorted_scores,
                              std_auc |-> Variance(bootstrapped_scores)]
                  IN /\ auc_return' = ret
                     /\ earlier' = IF history # NoResult /\ history.CI_index = CI_index
                                   THEN history ELSE NoResult
                     /\ history' = ret
                     /\ ResetLocals
                     /\ raised_at' = 0
                     /\ IF func = "EstimateMetirc"
                        THEN /\ pc' = "line97"
                             /\ UNCHANGED <<metric, pred, outcome, result>>
                        ELSE /\ pc' = "idle"
                             /\ outcome' = "returned"
                             /\ result' = ret
                             /\ UNCHANGED <<metric, pred>>
    /\ UNCHANGED <<inputs, np_random, func, CI_index, rng_at_call>>

(* --------------------------- EstimateMetirc --------------------------- *)
\* lines 62-96: the metrics, then the call of AUC_Confidence_Interval
EM_Line62 ==
    /\ pc = "line62"
    /\ LET threshold == YoudenPoint(y_pred, y_true).thr
           p == Binarize(y_pred, threshold)
       IN /\ pred' = p
          /\ metric' = Metrics(y_pred, y_true, threshold, p)
    /\ pc' = "line18"
    /\ UNCHANGED <<inputs, np_random, func, CI_index, locals, auc_return,
                   outcome, result, raised_at, n_scores, rng_at_call, history,
                   earlier>>

\* lines 97-101
EM_Line97 ==
    /\ pc = "line97"
    /\ LET m == [auc |-> Format4(auc_return.single_auc, AUCScale),
                 auc_CI |-> <<Format4(auc_return.CI[1], AUCScale),
                              Format4(auc_return.CI[2], AUCScale)>>,
                 auc_std |-> [kind |-> "text", sqrt_of |-> auc_return.std_auc]]
                @@ metric
       IN /\ result' = m
          /\ metric' = NoResult
    /\ pred' = <<>>
    /\ outcome' = "returned"
    /\ pc' = "idle"
    /\ UNCHANGED <<inputs, np_random, func, CI_index, locals, auc_return,
                   raised_at, n_scores, rng_at_call, history, earlier>>

Next ==
    \/ \E ci \in CILevels : CallAUC(ci)
    \/ CallEstimateMetirc
    \/ CallerRandom
    \/ AUC_Line18
    \/ AUC_Line22
    \/ AUC_Line24
    \/ AUC_Line38
    \/ EM_Line62
    \/ EM_Line97

Spec == Init /\ [][Next]_vars

(* ------------------------------ claims -------------------------------- *)
SingleClass == \A i, j \in DOMAIN y_true : y_true[i] = y_true[j]

BothClasses == ~SingleClass

CallEnded == pc = "idle" /\ func # "none"

Returned == auc_return # NoResult

\* C1: whenever AUC_Confidence_Interval returns, the interval has
\* lower <= upper and both bounds lie in [0, 1].
C1_IntervalOrdered ==
    Returned =>
        /\ auc_return.CI[1] <= auc_return.CI[2]
        /\ 0 <= auc_return.CI[1]
        /\ auc_return.CI[2] <= AUCScale

\* C2: the lower bound is the element of the sorted bootstrap result set at
\* position floor((1 - CI)/2 * N) and the upper bound the element at position
\* floor((1 - (1 - CI)/2) * N), N the size of the set.
C2_Positions ==
    Returned =>
        LET sorted == auc_return.sorted_scores
            n == Len(sorted)
            ci == auc_return.CI_index
        IN /\ auc_return.CI[1] = sorted[((100 - ci) * n) \div 200 + 1]
           /\ auc_return.CI[2] = sorted[((100 + ci) * n) \div 200 + 1]

\* C3: when every replicate was discarded although the labels hold both
\* classes, the call ends in InsufficientBootstrapSamplesError.
C3_Insufficient ==
    (CallEnded /\ BothClasses /\ n_scores = 0) =>
        outcome = "InsufficientBootstrapSamplesError"

\* C4: with fewer than two distinct labels both functions end in
\* DegenerateLabelError and nothing reaches the caller: no tuple, no mapping.
C4_Degenerate ==
    SingleClass =>
        /\ result = NoResult
        /\ auc_return = NoResult
        /\ outcome \in {"none", DegenerateLabelError}
        /\ CallEnded => outcome = DegenerateLabelError /\ metric = NoResult

C4_Witness ==
    /\ SingleClass
    /\ Len(y_true) = 3
    /\ CallEnded
    /\ func = "EstimateMetirc"
    /\ outcome = DegenerateLabelError

\* C5: in every replicate each resampled prediction and the resampled label at
\* the same position come from one index of the sample set, and the replicate
\* has the size of the sample set.
C5_Paired ==
    (pc = "line24" /\ it > 1) =>
        /\ Len(pred_one_sample) = Len(y_pred)
        /\ Len(label_one_sample) = Len(y_true)
        /\ \A k \in 1..Len(y_pred) : \E i \in 1..Len(y_pred) :
              /\ pred_one_sample[k] = y_pred[i]
              /\ label_one_sample[k] = y_true[i]

C5_Witness ==
    /\ pc = "line24"
    /\ it > 1
    /\ Cardinality(Range(pred_one_sample)) > 1
    /\ Cardinality(Range(label_one_sample)) > 1

\* C6: two calls of AUC_Confidence_Interval on the same input return the same
\* mean, interval and standard deviation, whatever np.random was before each.
C6_Deterministic ==
    (Returned /\ earlier # NoResult) =>
        /\ auc_return.mean_auc = earlier.mean_auc
        /\ auc_return.CI = earlier.CI
        /\ auc_return.std_auc = earlier.std_auc

C6_Witness ==
    /\ Returned
    /\ earlier # NoResult
    /\ earlier.rng_after # rng_at_call
    /\ Len(auc_return.sorted_scores) > 1

\* Youden's J = tpr - fpr of point j of the ROC curve, times P * N
YoudenJ(roc, j) == roc[j].tps * Count(y_true, 0) - roc[j].fps * Count(y_true, 1)

\* the float the code computes for point j
Computed(roc, j) == OneMinusFprPlusTpr(roc[j], Count(y_true, 1), Count(y_true, 0))

\* point j is the one 'Youden Index' and pred were made from
Selected(roc, j) ==
    /\ metric.Youden_Index = [kind |-> "text", value |-> 10000 * roc[j].thr]
    /\ \A k \in DOMAIN y_pred : pred[k] = 1 <=> y_pred[k] >= roc[j].thr
    /\ \A k \in DOMAIN y_pred : pred[k] \in {0, 1}

\* the mapping and pred have just been made (lines 65-94)
MetricsMade == pc = "line18" /\ func = "EstimateMetirc" /\ metric # NoResult

MetricsReturned == CallEnded /\ func = "EstimateMetirc" /\ outcome = "returned"

\* C7 as claimed: EstimateMetirc selects the first ROC point of maximal
\* tpr - fpr, records its threshold as 'Youden Index', and predicts positive
\* exactly the samples whose prediction is >= that threshold.
C7_FirstOfTied ==
    (MetricsMade /\ BothClasses) =>
        LET roc == RocCurve(y_true, y_pred)
        IN \E j \in DOMAIN roc :
              /\ Selected(roc, j)
              /\ \A k \in DOMAIN roc : YoudenJ(roc, k) <= YoudenJ(roc, j)
              /\ \A k \in 1..(j - 1) : YoudenJ(roc, k) < YoudenJ(roc, j)

\* point j has the largest tpr - fpr and is the first of the points at which
\* the float 1 - fpr + tpr is largest
FirstOfLargestComputed(roc, j) ==
    /\ \A k \in DOMAIN roc : YoudenJ(roc, k) <= YoudenJ(roc, j)
    /\ \A k \in DOMAIN roc : ~FLess(Computed(roc, j), Computed(roc, k))
    /\ \A k \in 1..(j - 1) : FLess(Computed(roc, k), Computed(roc, j))

\* C7 as amended: EstimateMetirc selects a ROC point of maximal tpr - fpr, the
\* first point at which the float 1 - fpr + tpr is largest; it records that
\* point's threshold as 'Youden Index' and predicts positive exactly the
\* samples whose prediction is >= that threshold.
C7_Youden ==
    /\ (MetricsMade /\ BothClasses) =>
          LET roc == RocCurve(y_true, y_pred)
          IN \E j \in DOMAIN roc :
                Selected(roc, j) /\ FirstOfLargestComputed(roc, j)
    /\ MetricsReturned =>
          LET roc == RocCurve(y_true, y_pred)
          IN \E j \in DOMAIN roc :
                /\ result.Youden_Index = [kind |-> "text", value |-> 10000 * roc[j].thr]
                /\ FirstOfLargestComputed(roc, j)

\* two points tie in tpr - fpr and the selected one is the later
C7_Witness ==
    /\ MetricsMade
    /\ BothClasses
    /\ LET roc == RocCurve(y_true, y_pred)
       IN \E j, k \in DOMAIN roc :
             /\ j < k
             /\ YoudenJ(roc, j) = YoudenJ(roc, k)
             /\ \A m \in DOMAIN roc : YoudenJ(roc, m) <= YoudenJ(roc, j)
             /\ Selected(roc, k)
             /\ roc[j].thr # roc[k].thr

\* number of samples with label l and binarized prediction p
Cell(l, p) == Cardinality({k \in DOMAIN y_true : y_true[k] = l /\ pred[k] = p})

\* v is the numeric 0 when den = 0, else the text of num/den to 4 decimals
IsRatio(v, num, den) ==
    IF den = 0 THEN v = [kind |-> "number", value |-> 0]
    ELSE /\ v.kind = "text"
         /\ 2 * (v.value * den - 10000 * num) <= den
         /\ 2 * (10000 * num - v.value * den) <= den

\* C8: sensitivity = TP/(TP+FN), specificity = TN/(FP+TN), positive
\* predictive value = TP/(TP+FP), negative predictive value = TN/(FN+TN), each
\* the number 0 exactly when its denominator is 0 and 4-decimal text
\* otherwise; a zero denominator raises nothing.
C8_Ratios ==
    /\ raised_at \notin 62..95
    /\ metric # NoResult =>
        /\ IsRatio(metric.sensitivity, Cell(1, 1), Cell(1, 1) + Cell(1, 0))
        /\ IsRatio(metric.specificity, Cell(0, 0), Cell(0, 1) + Cell(0, 0))
        /\ IsRatio(metric.ppv, Cell(1, 1), Cell(1, 1) + Cell(0, 1))
        /\ IsRatio(metric.npv, Cell(0, 0), Cell(1, 0) + Cell(0, 0))

C8_Witness ==
    /\ metric # NoResult
    /\ BothClasses
    /\ pc = "line97"
    /\ metric.ppv = [kind |-> "number", value |-> 0]
    /\ metric.sensitivity = [kind |-> "text", value |-> 0]
    /\ metric.npv.kind = "text"

PerfectlySeparated ==
    /\ BothClasses
    /\ \A i, j \in DOMAIN y_true :
          (y_true[i] = 1 /\ y_true[j] = 0) => y_pred[i] > y_pred[j]

One == [kind |-> "text", value |-> 10000]

C10_GeneratorUntouched ==
    CallEnded => np_random = rng_at_call

=============================================================================
